---- MODULE Spec2Model ----
(***************************************************************************)
(* Model of the transaction processor of the `transactor` crate:           *)
(*   models.rs      Account, Transaction                                   *)
(*   processing.rs  disputed_amount, Partition, Processor (worker threads) *)
(*   proto.rs       the records read and their conversion                  *)
(*   lib.rs         process: the records are read, submitted and waited on *)
(* Decimal amounts are integers counting the smallest unit of currency.    *)
(***************************************************************************)
EXTENDS Integers, Sequences, FiniteSets, TLC

\* ---------------------------------------------------------------- bounds
\* Largest amount of a Deposit or Withdrawal fed to the model.
MaxAmount == 2
\* Number of Partition::process calls in PartitionSpec.
MaxCalls == 4
\* Number of transactions submitted to one Processor in Spec.
MaxStream == 3
\* Number of transactions submitted to one Processor in FairSpec.
MaxFairStream == 2
\* Largest n_cores handed to Processor::spawn.
MaxWorkers == 2
\* Number of Processor::wait calls made on one Processor.
MaxWaits == 1
\* Number of records the reader yields in DriverSpec.
MaxInput == 2

\* ---------------------------------------------------------------- data
ClientIds == {1, 2}
TransactionIds == {1, 2}
Amounts == 1..MaxAmount

Meta(c, t) == [client_id |-> c, transaction_id |-> t]

\* enum Transaction: Deposit and Withdrawal carry an amount, the others do not.
Transaction ==
    [kind : {"Deposit", "Withdrawal"}, meta : [client_id : ClientIds, transaction_id : TransactionIds], amount : Amounts]
    \cup
    [kind : {"Dispute", "Resolve", "Chargeback"}, meta : [client_id : ClientIds, transaction_id : TransactionIds]]

\* The transactions handed to Processor::process in Spec: every kind and client, on
\* one transaction id and one amount (routing reads the client id alone; the ledger
\* itself is exercised on all of Transaction in PartitionSpec).
Submitted ==
    {tr \in Transaction :
        /\ tr.meta.transaction_id = 1
        /\ tr.kind \in {"Deposit", "Withdrawal"} => tr.amount = 1}

\* HashMap::insert / HashMap::get on a map kept as a function on its key set.
MapInsert(m, k, v) == [x \in DOMAIN m \cup {k} |-> IF x = k THEN v ELSE m[x]]
MapGet(m, k) == IF k \in DOMAIN m THEN {m[k]} ELSE {}

\* ---------------------------------------------------------------- Account
AccountNew == [available_funds |-> 0, held_funds |-> 0, is_locked |-> FALSE]

\* Mutant: the locked flag is never consulted.
is_frozen_never(acc) == FALSE

is_frozen(acc) == acc.is_locked

get_available_funds(acc) == acc.available_funds

deposit(acc, amount) == [acc EXCEPT !.available_funds = @ + amount]

\* The assertion of Account::withdraw.
withdraw_assert(acc, amount) == acc.available_funds >= amount

withdraw(acc, amount) == [acc EXCEPT !.available_funds = @ - amount]

hold_funds(acc, amount) ==
    [acc EXCEPT !.available_funds = @ - amount, !.held_funds = @ + amount]

\* Mutant: releasing the held funds locks the account, as a chargeback does.
release_funds_locking(acc, amount) ==
    [acc EXCEPT !.available_funds = @ + amount, !.held_funds = @ - amount, !.is_locked = TRUE]

release_funds(acc, amount) ==
    [acc EXCEPT !.available_funds = @ + amount, !.held_funds = @ - amount]

\* Mutant: the chargeback takes the held funds but does not lock the account.
chargeback_no_lock(acc, amount) == [acc EXCEPT !.held_funds = @ - amount]

chargeback(acc, amount) ==
    [acc EXCEPT !.held_funds = @ - amount, !.is_locked = TRUE]

\* ---------------------------------------------------------------- Partition
\* Mutant: the client id of the disputed transaction is not compared.
disputed_amount_any_client(tr, client_id) ==
    IF tr.kind = "Deposit" THEN {tr.amount} ELSE {}

\* Option<Decimal> as a set with at most one element.
disputed_amount(tr, client_id) ==
    IF tr.meta.client_id # client_id THEN {}
    ELSE IF tr.kind = "Deposit" THEN {tr.amount} ELSE {}

PartitionNew ==
    [transaction_history |-> <<>>, disputed_transactions |-> <<>>, accounts |-> <<>>]

\* accounts.entry(client_id).or_insert_with(Account::new)
AccountsEntry(accounts, client_id) ==
    IF client_id \in DOMAIN accounts THEN accounts
    ELSE MapInsert(accounts, client_id, AccountNew)

\* Mutant: the guard compares the total funds, not the available ones.
SufficientTotal(acc, amount) == acc.available_funds + acc.held_funds >= amount

\* Mutant: a withdrawal of exactly the available funds is refused.
SufficientStrict(acc, amount) == get_available_funds(acc) > amount

\* The guard of the Withdrawal arm.
SufficientFunds(acc, amount) == get_available_funds(acc) >= amount

\* The transaction a Dispute / Resolve / Chargeback finds in `map` with an amount
\* this client may dispute: the two nested `for` loops over Options.
Disputable(map, tr) ==
    {d \in MapGet(map, tr.meta.transaction_id) : disputed_amount(d, tr.meta.client_id) # {}}

\* The account after the match on the transaction kind.
ApplyToAccount(p, acc, tr) ==
    CASE tr.kind = "Deposit" -> deposit(acc, tr.amount)
      [] tr.kind = "Withdrawal" ->
            IF SufficientFunds(acc, tr.amount) THEN withdraw(acc, tr.amount) ELSE acc
      [] tr.kind = "Dispute" ->
            IF Disputable(p.transaction_history, tr) = {} THEN acc
            ELSE LET d == CHOOSE d \in Disputable(p.transaction_history, tr) : TRUE
                 IN hold_funds(acc, d.amount)
      [] tr.kind = "Resolve" ->
            IF Disputable(p.disputed_transactions, tr) = {} THEN acc
            ELSE LET d == CHOOSE d \in Disputable(p.disputed_transactions, tr) : TRUE
                 IN release_funds(acc, d.amount)
      [] tr.kind = "Chargeback" ->
            IF Disputable(p.disputed_transactions, tr) = {} THEN acc
            ELSE LET d == CHOOSE d \in Disputable(p.disputed_transactions, tr) : TRUE
                 IN chargeback(acc, d.amount)

\* Mutant: a Resolve or Chargeback that takes effect removes the entry it used.
ApplyToDisputedRemoving(p, tr) ==
    IF tr.kind = "Dispute" /\ Disputable(p.transaction_history, tr) # {}
    THEN LET d == CHOOSE d \in Disputable(p.transaction_history, tr) : TRUE
         IN MapInsert(p.disputed_transactions, d.meta.transaction_id, d)
    ELSE IF tr.kind \in {"Resolve", "Chargeback"} /\ Disputable(p.disputed_transactions, tr) # {}
    THEN [u \in DOMAIN p.disputed_transactions \ {tr.meta.transaction_id} |->
              p.disputed_transactions[u]]
    ELSE p.disputed_transactions

\* disputed_transactions after the match: only a Dispute that holds funds inserts.
ApplyToDisputed(p, tr) ==
    IF tr.kind = "Dispute" /\ Disputable(p.transaction_history, tr) # {}
    THEN LET d == CHOOSE d \in Disputable(p.transaction_history, tr) : TRUE
         IN MapInsert(p.disputed_transactions, d.meta.transaction_id, d)
    ELSE p.disputed_transactions

\* Whether Partition::process(tr) panics: Account::withdraw is reached with its
\* assertion false.
ProcessPanics(p, tr) ==
    LET acc == AccountsEntry(p.accounts, tr.meta.client_id)[tr.meta.client_id]
    IN /\ ~is_frozen(acc)
       /\ tr.kind = "Withdrawal"
       /\ SufficientFunds(acc, tr.amount)
       /\ ~withdraw_assert(acc, tr.amount)

\* Mutant: only deposits and withdrawals are recorded in the history.
PartitionProcessRecordsFunds(p, tr) ==
    LET accounts1 == AccountsEntry(p.accounts, tr.meta.client_id)
        acc == accounts1[tr.meta.client_id]
    IN IF is_frozen(acc) THEN [p EXCEPT !.accounts = accounts1]
       ELSE [transaction_history |->
                 IF tr.kind \in {"Deposit", "Withdrawal"}
                 THEN MapInsert(p.transaction_history, tr.meta.transaction_id, tr)
                 ELSE p.transaction_history,
             disputed_transactions |-> ApplyToDisputed(p, tr),
             accounts |-> [accounts1 EXCEPT ![tr.meta.client_id] = ApplyToAccount(p, acc, tr)]]

\* Mutant: the transaction is recorded before the locked flag is looked at.
PartitionProcessRecordsFirst(p, tr) ==
    LET accounts1 == AccountsEntry(p.accounts, tr.meta.client_id)
        acc == accounts1[tr.meta.client_id]
        history1 == MapInsert(p.transaction_history, tr.meta.transaction_id, tr)
    IN IF is_frozen(acc) THEN [p EXCEPT !.accounts = accounts1, !.transaction_history = history1]
       ELSE [transaction_history |-> history1,
             disputed_transactions |-> ApplyToDisputed(p, tr),
             accounts |-> [accounts1 EXCEPT ![tr.meta.client_id] = ApplyToAccount(p, acc, tr)]]

\* Partition::process(tr) when it returns.
PartitionProcess(p, tr) ==
    LET accounts1 == AccountsEntry(p.accounts, tr.meta.client_id)
        acc == accounts1[tr.meta.client_id]
    IN IF is_frozen(acc) THEN [p EXCEPT !.accounts = accounts1]
       ELSE [transaction_history |->
                 MapInsert(p.transaction_history, tr.meta.transaction_id, tr),
             disputed_transactions |-> ApplyToDisputed(p, tr),
             accounts |-> [accounts1 EXCEPT ![tr.meta.client_id] = ApplyToAccount(p, acc, tr)]]

\* The ids whose deposit a Dispute has put on hold with no Deposit of that id recorded
\* since, after process(tr): a Dispute that holds funds adds its id, a Deposit that
\* is recorded removes its id.
HeldAfter(p, held, tr) ==
    LET acc == AccountsEntry(p.accounts, tr.meta.client_id)[tr.meta.client_id]
    IN IF is_frozen(acc) THEN held
       ELSE IF tr.kind = "Dispute" /\ Disputable(p.transaction_history, tr) # {}
       THEN held \cup {tr.meta.transaction_id}
       ELSE IF tr.kind = "Deposit" THEN held \ {tr.meta.transaction_id}
       ELSE held

\* Partition::process over a sequence of transactions, left to right.
RECURSIVE RunPartition(_, _)
RunPartition(p, trs) ==
    IF trs = <<>> THEN p
    ELSE RunPartition(PartitionProcess(p, Head(trs)), Tail(trs))

\* ---------------------------------------------------------------- Processor
\* DefaultHasher::new() is SipHash-1-3 with both keys zero; ClientId(u16) feeds it
\* its two bytes. finish() as four 16-bit limbs, most significant first.
DefaultHasherFinish(client_id) ==
    CASE client_id = 1 -> <<37306, 27492, 14336, 8697>>     \* 0x91ba6b64380021f9
      [] client_id = 2 -> <<14535, 49446, 6358, 56980>>     \* 0x38c7c12618d6de94

\* A 64-bit value given by its limbs, modulo n.
Mod64(limbs, n) ==
    (((((((limbs[1] % n) * 65536 + limbs[2]) % n) * 65536 + limbs[3]) % n) * 65536) + limbs[4]) % n

\* Mutant: the whole transaction is hashed, not its client id alone.
worker_id_of_transaction(tr, n_workers) ==
    ((IF tr.kind = "Deposit" THEN 1 ELSE 0) + tr.meta.client_id) % n_workers

\* worker_id of Processor::process: the index into self.workers (0-based).
worker_id(tr, n_workers) == Mod64(DefaultHasherFinish(tr.meta.client_id), n_workers)

\* Mutant: the assertion lets an empty worker list through.
process_assert_weak(n_workers) == n_workers >= 0

\* The assertion of Processor::process.
process_assert(n_workers) == n_workers > 0

\* enum Command
Job(tr) == [type |-> "Job", tr |-> tr]
Halt == [type |-> "Halt"]

\* Mutant: a channel that delivers the newest message first.
SendFront(chan, msg) == <<msg>> \o chan

\* mpsc::Sender::send appends to the queue.
Send(chan, msg) == Append(chan, msg)

\* mpsc::Receiver::recv yields the head of the queue (the caller removes it).
Recv(chan) == Head(chan)

\* Mutant: the last worker is read but not removed.
Peek(ws) == ws

\* Vec::pop on self.workers.
Pop(ws) == SubSeq(ws, 1, Len(ws) - 1)

\* Record::new(account, client_id)
Record(item, id) == [item |-> item, id |-> id]

\* The orders in which HashMap::into_iter may yield the keys of `accounts`.
IterOrders(accounts) ==
    {s \in [1..Cardinality(DOMAIN accounts) -> DOMAIN accounts] :
        \A i, j \in DOMAIN s : i # j => s[i] # s[j]}

\* Mutant: accounts that never held funds are left out of the result.
AccsNonZero(accounts, order) ==
    LET used(c) == accounts[c] # AccountNew
    IN [i \in 1..Cardinality({j \in DOMAIN order : used(order[j])}) |->
           LET k == CHOOSE k \in DOMAIN order :
                       /\ used(order[k])
                       /\ Cardinality({j \in 1..k : used(order[j])}) = i
           IN Record(accounts[order[k]], order[k])]

\* The Vec a worker collects from its partition, for one iteration order.
Accs(accounts, order) == [i \in DOMAIN order |-> Record(accounts[order[i]], order[i])]

\* ---------------------------------------------------------------- input boundary
\* The values of the `type` column: the five kinds and one that is none of them.
Kinds == {"deposit", "withdrawal", "dispute", "resolve", "chargeback", "refund"}

\* Option<Decimal> of the `amount` column, as a set with at most one element.
OptAmounts == {{}, {0 - 1}, {0}, {1}}

\* What the csv reader yields: a deserialized proto::Transaction or a csv::Error.
\* Deposits and withdrawals come with every amount, the other kinds with an empty
\* amount column (to_transaction does not read theirs).
Items ==
    {item \in [tag : {"Ok"}, kind : Kinds, client_id : ClientIds, transaction_id : {1},
               amount : OptAmounts] :
        item.kind \notin {"deposit", "withdrawal"} => item.amount = {}}
    \cup {[tag |-> "Err"]}

\* proto::Transaction::meta
proto_meta(item) == Meta(item.client_id, item.transaction_id)

\* Mutant: an amount of zero is let through.
to_transaction_nonnegative(item) ==
    CASE item.kind = "deposit" ->
            {[kind |-> "Deposit", meta |-> proto_meta(item), amount |-> a] :
                 a \in {x \in item.amount : x >= 0}}
      [] item.kind = "withdrawal" ->
            {[kind |-> "Withdrawal", meta |-> proto_meta(item), amount |-> a] :
                 a \in {x \in item.amount : x >= 0}}
      [] item.kind = "dispute" -> {[kind |-> "Dispute", meta |-> proto_meta(item)]}
      [] item.kind = "resolve" -> {[kind |-> "Resolve", meta |-> proto_meta(item)]}
      [] item.kind = "chargeback" -> {[kind |-> "Chargeback", meta |-> proto_meta(item)]}
      [] OTHER -> {}

\* proto::Transaction::to_transaction; the Result as a set: {tr} for Ok(tr), {} for Err.
to_transaction(item) ==
    CASE item.kind = "deposit" ->
            {[kind |-> "Deposit", meta |-> proto_meta(item), amount |-> a] :
                 a \in {x \in item.amount : x > 0}}
      [] item.kind = "withdrawal" ->
            {[kind |-> "Withdrawal", meta |-> proto_meta(item), amount |-> a] :
                 a \in {x \in item.amount : x > 0}}
      [] item.kind = "dispute" -> {[kind |-> "Dispute", meta |-> proto_meta(item)]}
      [] item.kind = "resolve" -> {[kind |-> "Resolve", meta |-> proto_meta(item)]}
      [] item.kind = "chargeback" -> {[kind |-> "Chargeback", meta |-> proto_meta(item)]}
      [] OTHER -> {}

\* models::Transaction::read_many followed by filter_map(|r| r.ok()): the transaction
\* an item becomes, if any (`result?` passes a csv::Error on).
read_many(item) == IF item.tag = "Err" THEN {} ELSE to_transaction(item)

\* ---------------------------------------------------------------- state
VARIABLES
    part,       \* PartitionSpec: the Partition under test
    part_pc,    \* PartitionSpec: "ready", or "panicked" once a call has panicked
    part_calls, \* PartitionSpec: number of process calls made
    part_last,  \* PartitionSpec: the transaction of the last call ({} before the first)
    part_held,  \* PartitionSpec: the ids put on hold by a Dispute, no Deposit of the id since
    n_cores,    \* the argument of Processor::spawn
    workers,    \* Processor.workers: the threads whose handle and sender it holds
    cmd_chan,   \* per worker thread, its command channel
    acc_chan,   \* the shared result channel
    partition,  \* per worker thread, its local `partition`
    wpc,        \* per worker thread: "loop", "exited", "panicked"
    pc,         \* the caller: "idle", in wait "halt" / "join" / "recv", or "panicked"
    panic,      \* the message of the caller's panic ("" while it has not panicked)
    n_workers,  \* wait's local n_workers
    loop_i,     \* wait's position in its for loops
    output,     \* wait's local output, and its return value once it returned
    wait_calls, \* number of wait calls started
    stream,     \* the transactions sent by Processor::process, in order
    routed,     \* the thread each of them was sent to
    processed,  \* per worker thread, the transactions its partition processed, in order
    recv_from,  \* the threads whose batches wait received, in order
    input       \* DriverSpec: the items the reader has yielded, in order

part_vars == <<part, part_pc, part_calls, part_last, part_held>>

proc_vars == <<n_cores, workers, cmd_chan, acc_chan, partition, wpc, pc, panic,
               n_workers, loop_i, output, wait_calls, stream, routed, processed, recv_from>>

drv_vars == <<input>>

vars == <<part, part_pc, part_calls, part_last, part_held,
          n_cores, workers, cmd_chan, acc_chan, partition, wpc, pc, panic,
          n_workers, loop_i, output, wait_calls, stream, routed, processed, recv_from,
          input>>

Threads == 0..(n_cores - 1)

PartInit ==
    /\ part = PartitionNew
    /\ part_pc = "ready"
    /\ part_calls = 0
    /\ part_last = {}
    /\ part_held = {}

\* Processor::spawn(n_cores): the threads are started, each with an empty partition.
ProcInit ==
    /\ n_cores \in 1..MaxWorkers
    /\ workers = [i \in 1..n_cores |-> i - 1]
    /\ cmd_chan = [w \in Threads |-> <<>>]
    /\ acc_chan = <<>>
    /\ partition = [w \in Threads |-> PartitionNew]
    /\ wpc = [w \in Threads |-> "loop"]
    /\ pc = "idle"
    /\ panic = ""
    /\ n_workers = 0
    /\ loop_i = 0
    /\ output = <<>>
    /\ wait_calls = 0
    /\ stream = <<>>
    /\ routed = <<>>
    /\ processed = [w \in Threads |-> <<>>]
    /\ recv_from = <<>>

\* The reader has yielded nothing yet.
DrvInit == input = <<>>

Init == PartInit /\ ProcInit /\ DrvInit

\* ---------------------------------------------------------------- PartitionSpec
\* One call of Partition::process on the Partition under test.
PartProcess(tr) ==
    /\ part_pc = "ready"
    /\ part_calls < MaxCalls
    /\ part_calls' = part_calls + 1
    /\ part_last' = {tr}
    /\ IF ProcessPanics(part, tr)
       THEN part_pc' = "panicked" /\ part' = part /\ part_held' = part_held
       ELSE /\ part_pc' = part_pc
            /\ part' = PartitionProcess(part, tr)
            /\ part_held' = HeldAfter(part, part_held, tr)
    /\ UNCHANGED proc_vars
    /\ UNCHANGED drv_vars

PartNext == \E tr \in Transaction : PartProcess(tr)

\* The Partition under test is driven directly; the Processor stays as spawn(1) left it.
PartitionInit == Init /\ n_cores = 1

PartitionSpec == PartitionInit /\ [][PartNext]_vars

\* ---------------------------------------------------------------- Spec
\* Processor::process(tr), called while the caller is not inside wait.
ProcessorProcess(tr) ==
    /\ pc = "idle"
    /\ Len(stream) < MaxStream
    /\ IF ~process_assert(Len(workers))
       THEN /\ pc' = "panicked"
            /\ panic' = "Processor is halted!"
            /\ UNCHANGED <<cmd_chan, stream, routed>>
       ELSE IF Len(workers) = 0
       THEN /\ pc' = "panicked"
            /\ panic' = "attempt to calculate the remainder with a divisor of zero"
            /\ UNCHANGED <<cmd_chan, stream, routed>>
       ELSE LET w == workers[worker_id(tr, Len(workers)) + 1]
            IN /\ cmd_chan' = [cmd_chan EXCEPT ![w] = Send(@, Job(tr))]
               /\ stream' = Append(stream, tr)
               /\ routed' = Append(routed, w)
               /\ UNCHANGED <<pc, panic>>
    /\ UNCHANGED <<n_cores, workers, acc_chan, partition, wpc, n_workers, loop_i,
                   output, wait_calls, processed, recv_from>>
    /\ UNCHANGED part_vars

\* Processor::wait is entered: n_workers is read. With no workers left none of its
\* loops runs and it returns an empty output at once.
WaitStart ==
    /\ pc = "idle"
    /\ wait_calls < MaxWaits
    /\ wait_calls' = wait_calls + 1
    /\ n_workers' = Len(workers)
    /\ IF Len(workers) = 0
       THEN /\ output' = <<>>
            /\ recv_from' = <<>>
            /\ UNCHANGED <<pc, loop_i>>
       ELSE /\ pc' = "halt"
            /\ loop_i' = 1
            /\ UNCHANGED <<output, recv_from>>
    /\ UNCHANGED <<n_cores, workers, cmd_chan, acc_chan, partition, wpc, panic,
                   stream, routed, processed>>
    /\ UNCHANGED part_vars
    /\ UNCHANGED drv_vars

\* for worker in &self.workers { worker.sender.send(Halt) }: one iteration; after the
\* last one the join loop is next.
WaitHalt ==
    /\ pc = "halt"
    /\ cmd_chan' = [cmd_chan EXCEPT ![workers[loop_i]] = Send(@, Halt)]
    /\ IF loop_i < Len(workers)
       THEN loop_i' = loop_i + 1 /\ pc' = pc
       ELSE loop_i' = loop_i /\ pc' = "join"
    /\ UNCHANGED <<n_cores, workers, acc_chan, partition, wpc, panic, n_workers,
                   output, wait_calls, stream, routed, processed, recv_from>>
    /\ UNCHANGED part_vars
    /\ UNCHANGED drv_vars

\* while self.workers.len() != 0 { pop; join }: one iteration. join returns once the
\* thread has ended, and unwrap panics if it ended by a panic. After the last one
\* output is created and the receive loop is next.
WaitJoin ==
    /\ pc = "join"
    /\ wpc[workers[Len(workers)]] \in {"exited", "panicked"}
    /\ workers' = Pop(workers)
    /\ IF wpc[workers[Len(workers)]] = "panicked"
       THEN /\ pc' = "panicked"
            /\ panic' = "called Result::unwrap() on an Err value"
            /\ UNCHANGED <<output, loop_i, recv_from>>
       ELSE IF Len(workers') # 0
       THEN UNCHANGED <<pc, panic, output, loop_i, recv_from>>
       ELSE /\ output' = <<>>
            /\ recv_from' = <<>>
            /\ loop_i' = 0
            /\ pc' = "recv"
            /\ panic' = panic
    /\ UNCHANGED <<n_cores, cmd_chan, acc_chan, partition, wpc, n_workers,
                   wait_calls, stream, routed, processed>>
    /\ UNCHANGED part_vars
    /\ UNCHANGED drv_vars

\* for _ in 0..n_workers { receiver.recv(); push each record }: one iteration; after
\* the last one wait returns output.
WaitRecv ==
    /\ pc = "recv"
    /\ acc_chan # <<>>
    /\ output' = output \o Recv(acc_chan).accs
    /\ recv_from' = Append(recv_from, Recv(acc_chan).from)
    /\ acc_chan' = Tail(acc_chan)
    /\ loop_i' = loop_i + 1
    /\ pc' = IF loop_i + 1 < n_workers THEN pc ELSE "idle"
    /\ UNCHANGED <<n_cores, workers, cmd_chan, partition, wpc, panic, n_workers,
                   wait_calls, stream, routed, processed>>
    /\ UNCHANGED part_vars
    /\ UNCHANGED drv_vars

\* A worker thread takes a Job from its channel and its partition processes it; a
\* panic in process ends the thread.
WorkerJob(w) ==
    /\ w \in Threads
    /\ wpc[w] = "loop"
    /\ cmd_chan[w] # <<>>
    /\ Recv(cmd_chan[w]).type = "Job"
    /\ cmd_chan' = [cmd_chan EXCEPT ![w] = Tail(@)]
    /\ LET tr == Recv(cmd_chan[w]).tr
       IN IF ProcessPanics(partition[w], tr)
          THEN /\ wpc' = [wpc EXCEPT ![w] = "panicked"]
               /\ UNCHANGED <<partition, processed>>
          ELSE /\ partition' = [partition EXCEPT ![w] = PartitionProcess(@, tr)]
               /\ processed' = [processed EXCEPT ![w] = Append(@, tr)]
               /\ wpc' = wpc
    /\ UNCHANGED <<n_cores, workers, acc_chan, pc, panic, n_workers, loop_i, output,
                   wait_calls, stream, routed, recv_from>>
    /\ UNCHANGED part_vars
    /\ UNCHANGED drv_vars

\* A worker thread takes Halt from its channel: it leaves the loop, collects its
\* accounts in the map's iteration order, sends them on the result channel and ends.
WorkerHalt(w) ==
    /\ w \in Threads
    /\ wpc[w] = "loop"
    /\ cmd_chan[w] # <<>>
    /\ Recv(cmd_chan[w]).type = "Halt"
    /\ cmd_chan' = [cmd_chan EXCEPT ![w] = Tail(@)]
    /\ \E order \in IterOrders(partition[w].accounts) :
          acc_chan' = Send(acc_chan, [from |-> w, accs |-> Accs(partition[w].accounts, order)])
    /\ wpc' = [wpc EXCEPT ![w] = "exited"]
    /\ UNCHANGED <<n_cores, workers, partition, pc, panic, n_workers, loop_i,
                   output, wait_calls, stream, routed, processed, recv_from>>
    /\ UNCHANGED part_vars
    /\ UNCHANGED drv_vars

Worker == (\E w \in Threads : WorkerJob(w)) \/ (\E w \in Threads : WorkerHalt(w))

Wait == WaitStart \/ WaitHalt \/ WaitJoin \/ WaitRecv

Next ==
    \/ \E tr \in Submitted : ProcessorProcess(tr) /\ UNCHANGED drv_vars
    \/ Wait
    \/ Worker

Spec == Init /\ [][Next]_vars

\* The Processor with a shorter stream, for the properties of whole behaviours.
FairNext ==
    \/ \E tr \in Submitted :
          Len(stream) < MaxFairStream /\ ProcessorProcess(tr) /\ UNCHANGED drv_vars
    \/ Wait
    \/ Worker

\* Worker threads are scheduled by the operating system and run whenever they can;
\* the caller, once inside wait, runs on to its end. Whether and when the caller
\* calls process or wait is up to the caller.
FairSpec ==
    /\ Init
    /\ [][FairNext]_vars
    /\ \A w \in 0..(MaxWorkers - 1) : WF_vars(WorkerJob(w) \/ WorkerHalt(w))
    /\ WF_vars(WaitHalt \/ WaitJoin \/ WaitRecv)

\* ---------------------------------------------------------------- DriverSpec
\* One iteration of `for tr in transactions { processor.process(tr) }` in lib.rs: the
\* reader yields an item; what read_many and filter_map let through is submitted.
DriverRead(item) ==
    /\ pc = "idle"
    /\ wait_calls = 0
    /\ Len(input) < MaxInput
    /\ input' = Append(input, item)
    /\ IF read_many(item) = {}
       THEN UNCHANGED proc_vars /\ UNCHANGED part_vars
       ELSE \E tr \in read_many(item) : ProcessorProcess(tr)

\* The driver of lib.rs: the records are read and submitted, then wait is called.
DriverNext ==
    \/ \E item \in Items : DriverRead(item)
    \/ Wait
    \/ Worker

DriverSpec == Init /\ [][DriverNext]_vars

\* ---------------------------------------------------------------- properties
\* The first wait call has returned (output is its return value).
WaitReturned == pc = "idle" /\ wait_calls = 1

\* The caller is inside wait.
InWait == pc \in {"halt", "join", "recv"}

\* The subsequence of trs whose entry in ws is w.
SelectRouted(trs, ws, w) ==
    LET pairs == [i \in DOMAIN trs |-> <<trs[i], ws[i]>>]
        To(p) == p[2] = w
        kept == SelectSeq(pairs, To)
    IN [i \in DOMAIN kept |-> kept[i][1]]

\* The subsequence of trs that carry client id c.
SelectClient(trs, c) ==
    LET Of(tr) == tr.meta.client_id = c
    IN SelectSeq(trs, Of)

IsPrefix(s, t) == Len(s) <= Len(t) /\ s = SubSeq(t, 1, Len(s))

Range(s) == {s[i] : i \in DOMAIN s}

\* The records of a map of accounts, as a set.
RecordsOf(accounts) == {Record(accounts[c], c) : c \in DOMAIN accounts}

\* The accounts wait returned for client c.
OutputAccounts(c) == {r.item : r \in {x \in Range(output) : x.id = c}}

\* C1: once an account is locked, no call of Partition::process changes its
\* available funds, held funds or locked flag.
C1_LockedAccountFrozen ==
    [][\A c \in DOMAIN part.accounts :
          part.accounts[c].is_locked =>
              c \in DOMAIN part'.accounts /\ part'.accounts[c] = part.accounts[c]]_vars

\* A transaction other than a chargeback was handed to process for a locked account.
C1_Witness ==
    \E tr \in part_last :
        /\ tr.kind # "Chargeback"
        /\ tr.meta.client_id \in DOMAIN part.accounts
        /\ part.accounts[tr.meta.client_id].is_locked

\* C2: after any sequence of transactions with positive amounts, no account's held
\* funds are negative.
C2_HeldNeverNegative ==
    \A c \in DOMAIN part.accounts : part.accounts[c].held_funds >= 0

\* C3: after any sequence of transactions with positive amounts, no account's total
\* available + held is negative.
C3_TotalNeverNegative ==
    \A c \in DOMAIN part.accounts :
        part.accounts[c].available_funds + part.accounts[c].held_funds >= 0

\* C4: whatever the worker count and the scheduling, wait returns for every client
\* the account that one worker alone computes from the same stream.
C4_SameForEveryWorkerCount ==
    WaitReturned =>
        \A c \in ClientIds :
            OutputAccounts(c) = MapGet(RunPartition(PartitionNew, stream).accounts, c)

\* C5: for a fixed worker count, the accounts wait returns are those of running each
\* worker's share of the stream, in stream order, through a fresh Partition.
C5_PartitionedSequentialRun ==
    WaitReturned =>
        Range(output) =
            UNION {RecordsOf(RunPartition(PartitionNew, SelectRouted(stream, routed, w)).accounts) :
                       w \in Threads}

\* wait returned the accounts of two workers that each processed transactions.
C5_Witness ==
    /\ WaitReturned
    /\ n_cores = 2
    /\ \A w \in Threads : Len(processed[w]) >= 1
    /\ Len(output) = 2

\* C6: transactions of one client all go to one worker; each worker processes what
\* was sent to it in submission order (so each client's transactions in theirs); and
\* no client has an account in two partitions.
C6_Routing ==
    /\ \A i, j \in DOMAIN stream :
          stream[i].meta.client_id = stream[j].meta.client_id => routed[i] = routed[j]
    /\ \A w \in Threads : IsPrefix(processed[w], SelectRouted(stream, routed, w))
    /\ \A v, w \in Threads :
          v # w => DOMAIN partition[v].accounts \cap DOMAIN partition[w].accounts = {}

\* With two workers, one has processed two transactions of one client and the other a
\* transaction of the other client.
C6_Witness ==
    /\ n_cores = 2
    /\ \E w \in Threads : \E c \in ClientIds : Len(SelectClient(processed[w], c)) >= 2
    /\ \A w \in Threads : Len(processed[w]) >= 1

\* Every transaction sent has been processed by the worker it was sent to.
AllProcessed == \A w \in Threads : processed[w] = SelectRouted(stream, routed, w)

\* C7: once wait is called it returns, and at its return every transaction submitted
\* has been processed by its worker's partition.
C7_Shutdown == InWait ~> (WaitReturned /\ AllProcessed)

\* wait has returned after both of two workers processed transactions.
C7_Witness ==
    /\ WaitReturned
    /\ n_cores = 2
    /\ Len(stream) >= 2
    /\ \A w \in Threads : Len(processed[w]) >= 1 /\ wpc[w] = "exited"

\* The clients that occur in the stream.
StreamClients == {stream[i].meta.client_id : i \in DOMAIN stream}

\* C8: wait receives one batch from each worker, and its result holds one record for
\* each client of the stream (a new account if the client never deposited) and none
\* for any other client.
C8_OneRecordPerClient ==
    WaitReturned =>
        /\ Len(recv_from) = n_cores
        /\ Range(recv_from) = Threads
        /\ \A c \in ClientIds :
              Cardinality({i \in DOMAIN output : output[i].id = c}) =
                  IF c \in StreamClients THEN 1 ELSE 0
        /\ \A i \in DOMAIN output :
              (\A k \in DOMAIN stream :
                  stream[k].meta.client_id = output[i].id => stream[k].kind # "Deposit")
              => output[i].item = AccountNew

\* wait has returned a new account for a client that only sent transactions without
\* effect, next to the account of a client that deposited.
C8_Witness ==
    /\ WaitReturned
    /\ n_cores = 2
    /\ \E i, j \in DOMAIN output :
          /\ output[i].item = AccountNew
          /\ output[j].item.available_funds > 0

\* C9: a process call made after wait was called panics on the "Processor is
\* halted!" assertion and sends nothing.
C9_SubmitAfterWaitIsFatal ==
    [][wait_calls >= 1 =>
          \A tr \in Submitted :
              ProcessorProcess(tr) =>
                  /\ pc' = "panicked"
                  /\ panic' = "Processor is halted!"
                  /\ cmd_chan' = cmd_chan
                  /\ stream' = stream]_vars

\* The caller has panicked in a process call made after wait returned.
C9_Witness ==
    /\ pc = "panicked"
    /\ panic = "Processor is halted!"
    /\ wait_calls = 1
    /\ stream # <<>>

\* C10: no call of Partition::process panics; the assertion of Account::withdraw
\* holds whenever process calls withdraw.
C10_ProcessNeverPanics == part_pc # "panicked"

\* A withdrawal was applied: after a deposit and a withdrawal by the same client the
\* account holds the difference.
C10_Witness ==
    /\ part_pc = "ready"
    /\ part_calls = 2
    /\ \E tr \in part_last : \E t \in DOMAIN part.transaction_history :
          LET d == part.transaction_history[t]
          IN /\ tr.kind = "Withdrawal"
             /\ t # tr.meta.transaction_id
             /\ d.kind = "Deposit"
             /\ d.meta.client_id = tr.meta.client_id
             /\ d.amount >= tr.amount
             /\ part.accounts[tr.meta.client_id].available_funds = d.amount - tr.amount

\* The account of client c in partition p; a client not seen yet has a new account.
AccountOf(p, c) == IF c \in DOMAIN p.accounts THEN p.accounts[c] ELSE AccountNew

\* C11: a withdrawal on an unlocked account lowers the available funds by its amount
\* if and only if they are at least that amount; otherwise available, held and locked
\* are unchanged. Whether its transaction id was seen before makes no difference.
C11_Withdrawal ==
    [][\A tr \in part_last' :
          LET c == tr.meta.client_id
              before == AccountOf(part, c)
              after == AccountOf(part', c)
          IN (tr.kind = "Withdrawal" /\ ~before.is_locked) =>
                 /\ before.available_funds >= tr.amount =>
                        /\ after.available_funds = before.available_funds - tr.amount
                        /\ after.held_funds = before.held_funds
                        /\ after.is_locked = before.is_locked
                 /\ before.available_funds < tr.amount => after = before]_vars

\* A withdrawal that reuses the id of the deposit before it was applied: after two
\* calls the history holds one id and the client is left with part of the deposit.
C11_Witness ==
    /\ part_calls = 2
    /\ \E tr \in part_last :
          /\ tr.kind = "Withdrawal"
          /\ DOMAIN part.transaction_history = {tr.meta.transaction_id}
          /\ part.accounts[tr.meta.client_id].available_funds = 1

\* Whether map[t] exists and is a Deposit of client c.
IsDepositOf(map, t, c) ==
    /\ t \in DOMAIN map
    /\ map[t].kind = "Deposit"
    /\ map[t].meta.client_id = c

\* C12: a dispute by client c on id t, on an unlocked account, moves funds only when
\* transaction_history[t] is a Deposit of c: then that deposit's amount goes from
\* available to held and the deposit is stored in disputed_transactions[t]. In every
\* other case the account and disputed_transactions are unchanged.
C12_Dispute ==
    [][\A tr \in part_last' :
          LET c == tr.meta.client_id
              t == tr.meta.transaction_id
              before == AccountOf(part, c)
              after == AccountOf(part', c)
          IN (tr.kind = "Dispute" /\ ~before.is_locked) =>
                 IF IsDepositOf(part.transaction_history, t, c)
                 THEN LET d == part.transaction_history[t]
                      IN /\ after.available_funds = before.available_funds - d.amount
                         /\ after.held_funds = before.held_funds + d.amount
                         /\ after.is_locked = before.is_locked
                         /\ DOMAIN part'.disputed_transactions =
                                DOMAIN part.disputed_transactions \cup {t}
                         /\ \A u \in DOMAIN part'.disputed_transactions :
                                part'.disputed_transactions[u] =
                                    IF u = t THEN d ELSE part.disputed_transactions[u]
                 ELSE /\ after = before
                      /\ part'.disputed_transactions = part.disputed_transactions]_vars

\* A dispute has put the deposit made just before it on hold.
C12_Witness ==
    /\ part_calls = 2
    /\ \E tr \in part_last :
          /\ tr.kind = "Dispute"
          /\ IsDepositOf(part.disputed_transactions, tr.meta.transaction_id, tr.meta.client_id)
          /\ part.accounts[tr.meta.client_id].held_funds =
                 part.disputed_transactions[tr.meta.transaction_id].amount
          /\ part.accounts[tr.meta.client_id].available_funds = 0

\* The clients that made a Deposit or Withdrawal with transaction id t in trs.
Owners(trs, t) ==
    {trs[i].meta.client_id :
        i \in {j \in DOMAIN trs : trs[j].kind \in {"Deposit", "Withdrawal"}
                                  /\ trs[j].meta.transaction_id = t}}

\* trs[i] is a Dispute, Resolve or Chargeback on an id that belongs to other clients.
CrossClient(trs, i) ==
    /\ trs[i].kind \in {"Dispute", "Resolve", "Chargeback"}
    /\ Owners(trs, trs[i].meta.transaction_id) # {}
    /\ trs[i].meta.client_id \notin Owners(trs, trs[i].meta.transaction_id)

\* What was routed to worker w, without the cross-client transactions of the stream.
OwnRouted(w) ==
    LET triples == [i \in DOMAIN stream |-> <<stream[i], routed[i], CrossClient(stream, i)>>]
        Own(p) == p[2] = w /\ ~p[3]
        kept == SelectSeq(triples, Own)
    IN [i \in DOMAIN kept |-> kept[i][1]]

\* C13: a Dispute, Resolve or Chargeback of one client on a transaction id of another
\* client changes no balance: wait returns for every client the available, held and
\* locked fields it would return had those transactions not been in the stream.
C13_CrossClientNoEffect ==
    WaitReturned =>
        \A i \in DOMAIN stream :
            LET c == stream[i].meta.client_id
            IN OutputAccounts(c) =
                   {AccountOf(RunPartition(PartitionNew, OwnRouted(routed[i])), c)}

\* C14: a resolve by client c on id t, on an unlocked account, moves the amount from
\* held back to available if and only if disputed_transactions[t] is a Deposit of c,
\* and it leaves disputed_transactions as it was: a second Resolve (or a Chargeback)
\* on the same id finds the entry again and is applied with the same amount.
C14_Resolve ==
    [][\A tr \in part_last' :
          LET c == tr.meta.client_id
              t == tr.meta.transaction_id
              before == AccountOf(part, c)
              after == AccountOf(part', c)
          IN (tr.kind = "Resolve" /\ ~before.is_locked) =>
                 /\ part'.disputed_transactions = part.disputed_transactions
                 /\ IF IsDepositOf(part.disputed_transactions, t, c)
                    THEN LET d == part.disputed_transactions[t]
                         IN /\ after.available_funds = before.available_funds + d.amount
                            /\ after.held_funds = before.held_funds - d.amount
                            /\ after.is_locked = before.is_locked
                    ELSE after = before]_vars

\* A second resolve of the same dispute was applied: deposit, dispute, resolve and
\* resolve leave the client with twice the deposit available.
C14_Witness ==
    /\ part_calls = 4
    /\ \E tr \in part_last :
          /\ tr.kind = "Resolve"
          /\ IsDepositOf(part.disputed_transactions, tr.meta.transaction_id, tr.meta.client_id)
          /\ LET d == part.disputed_transactions[tr.meta.transaction_id]
                 acc == part.accounts[tr.meta.client_id]
             IN /\ acc.available_funds = 2 * d.amount
                /\ acc.held_funds = 0 - d.amount
                /\ ~acc.is_locked

\* C15: a chargeback by client c on id t, on an unlocked account, takes effect if and
\* only if disputed_transactions[t] is a Deposit of c: then held decreases by that
\* amount, available is unchanged and the account is locked. In every other case the
\* account is unchanged (and so stays unlocked).
C15_Chargeback ==
    [][\A tr \in part_last' :
          LET c == tr.meta.client_id
              t == tr.meta.transaction_id
              before == AccountOf(part, c)
              after == AccountOf(part', c)
          IN (tr.kind = "Chargeback" /\ ~before.is_locked) =>
                 IF IsDepositOf(part.disputed_transactions, t, c)
                 THEN LET d == part.disputed_transactions[t]
                      IN /\ after.held_funds = before.held_funds - d.amount
                         /\ after.available_funds = before.available_funds
                         /\ after.is_locked
                 ELSE after = before /\ ~after.is_locked]_vars

\* Deposit, dispute and chargeback: the last call was a chargeback that emptied and
\* locked the account.
C15_Witness ==
    /\ part_calls = 3
    /\ \E tr \in part_last :
          /\ tr.kind = "Chargeback"
          /\ IsDepositOf(part.disputed_transactions, tr.meta.transaction_id, tr.meta.client_id)
          /\ part.accounts[tr.meta.client_id] =
                 [available_funds |-> 0, held_funds |-> 0, is_locked |-> TRUE]

\* C16: a transaction of any kind processed while its client's account is unlocked is
\* written to transaction_history under its own id, replacing an earlier entry with
\* that id and no other; a transaction for an account that is already locked leaves
\* transaction_history, disputed_transactions and every account unchanged.
C16_HistoryRecording ==
    [][\A tr \in part_last' :
          LET t == tr.meta.transaction_id
          IN IF AccountOf(part, tr.meta.client_id).is_locked
             THEN part' = part
             ELSE /\ DOMAIN part'.transaction_history = DOMAIN part.transaction_history \cup {t}
                  /\ \A u \in DOMAIN part'.transaction_history :
                         part'.transaction_history[u] =
                             IF u = t THEN tr ELSE part.transaction_history[u]]_vars

\* The chargeback that locked an account is in the history under its id, and a deposit
\* with the same id that came for the locked account afterwards has not replaced it.
C16_Witness ==
    \E tr \in part_last :
        /\ tr.kind = "Deposit"
        /\ AccountOf(part, tr.meta.client_id).is_locked
        /\ tr.meta.transaction_id \in DOMAIN part.transaction_history
        /\ part.transaction_history[tr.meta.transaction_id].kind = "Chargeback"
        /\ part.transaction_history[tr.meta.transaction_id].meta.client_id = tr.meta.client_id

\* C17: whenever a dispute calls hold_funds(amount) on an account, the account's
\* available funds are at least that amount, so the hold leaves them non-negative.
C17_HoldWithinAvailable ==
    [][\A tr \in part_last' :
          LET c == tr.meta.client_id
              t == tr.meta.transaction_id
              before == AccountOf(part, c)
          IN (/\ tr.kind = "Dispute"
              /\ ~before.is_locked
              /\ IsDepositOf(part.transaction_history, t, c)) =>
                 /\ before.available_funds >= part.transaction_history[t].amount
                 /\ AccountOf(part', c).available_funds >= 0]_vars

\* C18: accounts are independent: the account wait returns for a client is the one
\* that client's own transactions, in their order, produce on their own; transactions
\* of other clients, whatever ids they use and wherever they are routed, do not
\* change it.
C18_AccountsIndependent ==
    WaitReturned =>
        \A c \in StreamClients :
            OutputAccounts(c) =
                MapGet(RunPartition(PartitionNew, SelectClient(stream, c)).accounts, c)

\* An item that is to reach the Processor: it was read without error, its kind is one
\* of the five, and a deposit or withdrawal has an amount, which is positive.
Admissible(item) ==
    /\ item.tag = "Ok"
    /\ item.kind \in {"deposit", "withdrawal", "dispute", "resolve", "chargeback"}
    /\ item.kind \in {"deposit", "withdrawal"} =>
           item.amount # {} /\ \A a \in item.amount : a > 0

\* The transaction an admissible item stands for.
AsTransaction(item) ==
    LET name == CASE item.kind = "deposit" -> "Deposit"
                  [] item.kind = "withdrawal" -> "Withdrawal"
                  [] item.kind = "dispute" -> "Dispute"
                  [] item.kind = "resolve" -> "Resolve"
                  [] item.kind = "chargeback" -> "Chargeback"
        m == [client_id |-> item.client_id, transaction_id |-> item.transaction_id]
    IN IF item.kind \in {"deposit", "withdrawal"}
       THEN [kind |-> name, meta |-> m, amount |-> CHOOSE a \in item.amount : TRUE]
       ELSE [kind |-> name, meta |-> m]

\* C19: of the records read, exactly the admissible ones are submitted, in their input
\* order; the others are dropped and the run goes on; so every Deposit and Withdrawal
\* a partition processes has a positive amount.
C19_InputBoundary ==
    /\ LET kept == SelectSeq(input, Admissible)
       IN stream = [i \in DOMAIN kept |-> AsTransaction(kept[i])]
    /\ pc # "panicked"
    /\ \A w \in Threads : \A i \in DOMAIN processed[w] :
          processed[w][i].kind \in {"Deposit", "Withdrawal"} => processed[w][i].amount > 0

\* A deposit of amount zero was dropped and the withdrawal read after it was submitted
\* and processed.
C19_Witness ==
    /\ Len(input) = 2
    /\ input[1].tag = "Ok" /\ input[1].kind = "deposit" /\ input[1].amount = {0}
    /\ Len(stream) = 1
    /\ stream[1].kind = "Withdrawal"
    /\ \E w \in Threads : processed[w] = stream

\* C20: a deposit is put on hold by at most one Dispute. Once a Dispute by its owner
\* has held the funds of id t, every later Dispute on t, by any client, before or
\* after a Resolve, changes no account and no entry of disputed_transactions, as long
\* as no Deposit with id t has been recorded since.
C20_DisputedOnce ==
    [][\A tr \in part_last' :
          (tr.kind = "Dispute" /\ tr.meta.transaction_id \in part_held) =>
              /\ \A c \in ClientIds : AccountOf(part', c) = AccountOf(part, c)
              /\ part'.disputed_transactions = part.disputed_transactions]_vars

\* Deposit, dispute, resolve and a second dispute of the same id by the same client:
\* the second dispute held nothing, the whole deposit is available.
C20_Witness ==
    /\ part_calls = 4
    /\ \E tr \in part_last :
          /\ tr.kind = "Dispute"
          /\ tr.meta.transaction_id \in part_held
          /\ IsDepositOf(part.disputed_transactions, tr.meta.transaction_id, tr.meta.client_id)
          /\ part.accounts[tr.meta.client_id] =
                 [available_funds |-> part.disputed_transactions[tr.meta.transaction_id].amount,
                  held_funds |-> 0, is_locked |-> FALSE]

\* C21: the locked flag is monotone and has one cause. A locked account stays locked.
\* An account becomes locked only in the call that processes a Chargeback of its own
\* client on an id whose entry in disputed_transactions is a Deposit of that client;
\* such an entry is written only by a call that processes a Dispute of that client on
\* that id. Deposit, Withdrawal, Dispute and Resolve never change the flag.
C21_LockedMonotoneSingleCause ==
    [][\A tr \in part_last' :
          LET c == tr.meta.client_id
              t == tr.meta.transaction_id
              before == {x \in DOMAIN part.accounts : part.accounts[x].is_locked}
              after == {x \in DOMAIN part'.accounts : part'.accounts[x].is_locked}
          IN /\ before \subseteq after
             /\ after # before =>
                    /\ tr.kind = "Chargeback"
                    /\ after = before \cup {c}
                    /\ IsDepositOf(part.disputed_transactions, t, c)
             /\ tr.kind # "Chargeback" => after = before
             /\ part'.disputed_transactions # part.disputed_transactions =>
                    /\ tr.kind = "Dispute"
                    /\ IsDepositOf(part'.disputed_transactions, t, c)
                    /\ \A u \in DOMAIN part'.disputed_transactions \ {t} :
                           /\ u \in DOMAIN part.disputed_transactions
                           /\ part'.disputed_transactions[u] = part.disputed_transactions[u]]_vars

\* Deposit, dispute, resolve and chargeback: the chargeback found the entry the resolve
\* had left and locked the account, while the other client has none or an unlocked one.
C21_Witness ==
    /\ part_calls = 4
    /\ \E tr \in part_last :
          /\ tr.kind = "Chargeback"
          /\ IsDepositOf(part.disputed_transactions, tr.meta.transaction_id, tr.meta.client_id)
          /\ LET d == part.disputed_transactions[tr.meta.transaction_id]
             IN part.accounts[tr.meta.client_id] =
                    [available_funds |-> d.amount, held_funds |-> 0 - d.amount,
                     is_locked |-> TRUE]
          /\ \A c \in ClientIds \ {tr.meta.client_id} : ~AccountOf(part, c).is_locked

====
